---- MODULE Spec2Model ----
(***************************************************************************)
(* WinRateCallback (trl/trainer/callback.py): a trainer callback that, on  *)
(* every worker process, generates reference completions at train begin,   *)
(* regenerates policy completions at each evaluation, has a judge compare  *)
(* them pairwise, gathers the judged rows on all processes and logs the    *)
(* win rate from the main process.                                         *)
(*                                                                         *)
(* Python lists are modelled as TLA+ sequences (index i of Python is index *)
(* i+1 here).  A raised exception is modelled by the worker's pc becoming  *)
(* "failed" with the exception's name in error[w]: the callback handles no *)
(* exception, so it propagates to the trainer and ends the process.        *)
(***************************************************************************)
EXTENDS Integers, Sequences, FiniteSets, TLC

\* Bounds of the model.
MaxN == 3          \* largest prompt dataset
MaxProcs == 2      \* largest number of worker processes
MaxHookCalls == 3  \* hook invocations the trainer makes in one behaviour
MaxWideN == 4      \* largest prompt dataset of the wide specification
MaxWideProcs == 3  \* largest number of processes of the wide specification

VARIABLES
    prompt_dataset,    \* self.prompt_dataset: rows [prompt, chosen]
    num_processes,     \* accelerator.num_processes
    wandb_available,   \* is_wandb_available()
    split_version,     \* which shard layout accelerator.split_between_processes uses
    hook_calls,        \* the hook invocations the trainer has issued, in order
    done,              \* done[w]: how many of hook_calls worker w has returned from
    pc,                \* pc[w]: "idle", "gather", "main" or "failed"
    error,             \* error[w]: the exception that ended worker w, or "none"
    failed_in,         \* failed_in[w]: the hook in which worker w failed, or "none"
    ref_completions,   \* ref_completions[w]: self.ref_completions on worker w
    annotation_batch,  \* annotation_batch[w]: the batch of the evaluation in progress
    results_dict,      \* results_dict[w]: the local judged rows, then the gathered rows
    judge_calls,       \* judge_calls[w]: calls of self.judge.judge_batch on worker w
    log_history,       \* log_history[w]: self.trainer.state.log_history on worker w
    wandb_run          \* what wandb.log has received (main process)

vars == <<prompt_dataset, num_processes, wandb_available, split_version, hook_calls,
          done, pc, error, failed_in, ref_completions, annotation_batch, results_dict,
          judge_calls, log_history, wandb_run>>

config == <<prompt_dataset, num_processes, wandb_available, split_version>>

Workers == 0 .. (num_processes - 1)

----------------------------------------------------------------------------
\* Python helpers.

Min(a, b) == IF a < b THEN a ELSE b

CeilDiv(a, b) == (a + b - 1) \div b

\* list[start:end] with 0 <= start, in Python's 0-based half-open indexing.
Slice(list, start, end) == SubSeq(list, start + 1, Min(end, Len(list)))

\* [x] * n
Repeat(x, n) == [k \in 1 .. (IF n > 0 THEN n ELSE 0) |-> x]

\* [x for y in lists for x in y]
RECURSIVE Flatten(_)
Flatten(lists) == IF lists = <<>> THEN <<>> ELSE Head(lists) \o Flatten(Tail(lists))

----------------------------------------------------------------------------
\* The data the callback is constructed with.

\* The conversations the "chosen" column may hold: sequences of turns, a turn
\* being its role.
Conversations ==
    << <<"user", "assistant">>,
       <<"user", "assistant", "assistant">>,
       <<"user">>,
       <<"system", "user", "assistant", "user">> >>

\* A dataset of n rows; row i has prompt i and one of the conversations.
Dataset(n) ==
    [i \in 1 .. n |->
        [prompt |-> i, chosen |-> Conversations[((i - 1) % Len(Conversations)) + 1]]]

Ok(v) == [ok |-> TRUE, value |-> v, error |-> "none"]

Raise(e) == [ok |-> FALSE, value |-> <<>>, error |-> e]

----------------------------------------------------------------------------
\* accelerator.split_between_processes(inputs, apply_padding) on process w.
\* The callback only calls it; the two layouts are the ones the accelerate
\* library has shipped.  Both give every process a contiguous run of rows in
\* process order and, with apply_padding, repeat the last row of a short shard
\* until every shard has ceil(N / P) rows.

\* "blocks": every process takes the next ceil(N / P) rows, so only the tail
\* of the last non-empty shard and the shards after it hold filler.
SplitBlocks(inputs, P, w, apply_padding) ==
    LET length == Len(inputs)
        per    == CeilDiv(length, P)
        start  == w * per
        end    == IF length % P # 0 /\ w = P - 1 THEN length ELSE start + per
        result == IF start >= length
                  THEN Slice(inputs, IF length > 0 THEN length - 1 ELSE 0, length)
                  ELSE Slice(inputs, start, end)
    IN  IF ~apply_padding THEN Ok(result)
        ELSE IF result = <<>> THEN Raise("IndexError")
        ELSE Ok(result \o Repeat(result[Len(result)], per - Len(result)))

\* "balanced": N = P * per + extras; the first `extras` processes take
\* per + 1 rows, the others per rows plus one filler row.
SplitBalanced(inputs, P, w, apply_padding) ==
    LET length == Len(inputs)
        per    == length \div P
        extras == length % P
        start0 == w * per + Min(w, extras)
        end0   == start0 + per + (IF w < extras THEN 1 ELSE 0)
        start  == IF start0 >= length THEN length - 1 ELSE start0
        end    == IF end0 > length THEN length ELSE end0
        idcs   == [k \in 1 .. (end - start) |-> start + k - 1]
        padded == IF apply_padding
                  THEN idcs \o Repeat(end - 1,
                                      per + (IF extras > 0 THEN 1 ELSE 0) - Len(idcs))
                  ELSE idcs
    IN  IF \E k \in 1 .. Len(padded) : padded[k] < 0 \/ padded[k] >= length
        THEN Raise("IndexError")
        ELSE Ok([k \in 1 .. Len(padded) |-> inputs[padded[k] + 1]])

split_between_processes(inputs, P, w, apply_padding, version) ==
    IF P = 1 THEN Ok(inputs)
    ELSE IF version = "blocks" THEN SplitBlocks(inputs, P, w, apply_padding)
    ELSE SplitBalanced(inputs, P, w, apply_padding)

\* gather_object: every process receives the concatenation of all processes'
\* lists, in process order.
gather_object(lists, P) == Flatten([k \in 1 .. P |-> lists[k - 1]])

----------------------------------------------------------------------------
\* The steps of the two hooks.

\* if messages[-1]["role"] == "assistant": messages = messages[:-1]
StripAllTrailingAssistant(messages) ==
    LET keep == {k \in 0 .. Len(messages) :
                    \A j \in (k + 1) .. Len(messages) : messages[j] = "assistant"}
    IN  SubSeq(messages, 1, CHOOSE k \in keep : \A j \in keep : k <= j)

StripTrailingAssistant(messages) ==
    IF messages[Len(messages)] = "assistant"
    THEN SubSeq(messages, 1, Len(messages) - 1)
    ELSE messages

\* apply_chat_template, generate, cut the prompt tokens off, batch_decode and
\* take text_generations[0]: the text the model in state `step` generates for
\* the turns `messages`.  `for` and `hook` record the row and the hook of the
\* loop iteration that produced it.
Generate(row, messages, step, hook) ==
    [for |-> row.prompt, input |-> messages, model |-> step, hook |-> hook]

\* The loop of on_train_begin: one reference completion per row, in order.
GenerateRefCompletionsReversed(prompts, step) ==
    [i \in 1 .. Len(prompts) |->
        Generate(prompts[Len(prompts) + 1 - i],
                 StripTrailingAssistant(prompts[Len(prompts) + 1 - i].chosen),
                 step, "on_train_begin")]

GenerateRefCompletions(prompts, step) ==
    [i \in 1 .. Len(prompts) |->
        Generate(prompts[i], StripTrailingAssistant(prompts[i].chosen),
                 step, "on_train_begin")]

\* list[i] for i >= 0: the item, or IndexError.
NoCompletion == [for |-> 0, input |-> <<>>, model |-> 0, hook |-> "none"]

GetItemOrDefault(list, i) ==
    IF i < Len(list) THEN Ok(list[i + 1]) ELSE Ok(NoCompletion)

GetItem(list, i) ==
    IF i < Len(list) THEN Ok(list[i + 1]) ELSE Raise("IndexError")

\* [response0, response1]
PairSwapped(response0, response1) == <<response1, response0>>

Pair(response0, response1) == <<response0, response1>>

\* The loop of on_evaluate over local_dataset["chosen"]: the completions it
\* has appended when it ends, and whether it ended by an exception.
EvaluateLoop(local_dataset, refs, step) ==
    LET n       == Len(local_dataset)
        missing == {i \in 1 .. n : ~GetItem(refs, i - 1).ok}
        stop    == IF missing = {} THEN n + 1
                   ELSE CHOOSE i \in missing : \A j \in missing : i <= j
        pairs   == [i \in 1 .. (stop - 1) |->
                      Pair(Generate(local_dataset[i],
                                    StripTrailingAssistant(local_dataset[i].chosen),
                                    step, "on_evaluate"),
                           GetItem(refs, i - 1).value)]
    IN  [ok |-> missing = {}, value |-> pairs,
         error |-> IF missing = {} THEN "none" ELSE "IndexError"]

\* local_dataset["prompt"]
PromptColumn(local_dataset) == [i \in 1 .. Len(local_dataset) |-> local_dataset[i].prompt]

\* Dataset.from_dict({"results": ..., "prompts": ..., "completions": ...}), as rows.
ResultRows(results, prompts, completions) ==
    [i \in 1 .. Len(results) |->
        [results |-> results[i], prompts |-> prompts[i], completions |-> completions[i]]]

\* accelerator.is_main_process
EveryProcessIsMain(w) == TRUE

IsMainProcess(w) == w = 0

\* Dataset.from_list(results_dict).select(range(dataset_len))
SelectRange(rows, dataset_len) ==
    IF dataset_len > Len(rows) THEN Raise("IndexError")
    ELSE Ok(SubSeq(rows, 1, dataset_len))

\* sum([r == 0 for r in results]) / len(results), as <<numerator, denominator>>.
Wins(results_dataset) ==
    Cardinality({i \in 1 .. Len(results_dataset) : results_dataset[i].results = 0})

WinRateOfIndexOne(results_dataset) ==
    IF Len(results_dataset) = 0 THEN Raise("ZeroDivisionError")
    ELSE Ok(<<Len(results_dataset) - Wins(results_dataset), Len(results_dataset)>>)

WinRateGuarded(results_dataset) ==
    IF Len(results_dataset) = 0 THEN Ok(<<0, 1>>)
    ELSE Ok(<<Wins(results_dataset), Len(results_dataset)>>)

WinRate(results_dataset) ==
    IF Len(results_dataset) = 0 THEN Raise("ZeroDivisionError")
    ELSE Ok(<<Wins(results_dataset), Len(results_dataset)>>)

\* self.trainer.log(logs): appends the entry to state.log_history.
TrainerLog(history, key, value) == Append(history, [key |-> key, value |-> value])

\* The rows of the wandb.Table.
TableRows(results_dataset) ==
    [i \in 1 .. Len(results_dataset) |->
        <<results_dataset[i].prompts, results_dataset[i].completions[1],
          results_dataset[i].completions[2], results_dataset[i].results>>]

\* self.trainer.state.log_history.pop()
PopFirst(history) == Tail(history)

Pop(history) == SubSeq(history, 1, Len(history) - 1)

----------------------------------------------------------------------------
\* The state after WinRateCallback.__init__ on every process.

Hooks == {"on_train_begin", "on_evaluate"}

NoBatch == [prompts |-> <<>>, completions |-> <<>>]

Constructed(maxN, maxProcs) ==
    /\ \E n \in 0 .. maxN : prompt_dataset = Dataset(n)
    /\ num_processes \in 1 .. maxProcs
    /\ wandb_available \in BOOLEAN
    /\ split_version \in {"blocks", "balanced"}
    /\ hook_calls = <<>>
    /\ done = [w \in Workers |-> 0]
    /\ pc = [w \in Workers |-> "idle"]
    /\ error = [w \in Workers |-> "none"]
    /\ failed_in = [w \in Workers |-> "none"]
    /\ ref_completions = [w \in Workers |-> <<>>]
    /\ annotation_batch = [w \in Workers |-> NoBatch]
    /\ results_dict = [w \in Workers |-> <<>>]
    /\ judge_calls = [w \in Workers |-> 0]
    /\ log_history = [w \in Workers |-> <<>>]
    /\ wandb_run = <<>>

Init == Constructed(MaxN, MaxProcs)

\* The same program with more rows and more processes.
InitWide == Constructed(MaxWideN, MaxWideProcs)

\* The hook call worker w is to run next, and the trainer's step at that call.
NextCall(w) == hook_calls[done[w] + 1]

CanRun(w, hook) ==
    /\ pc[w] = "idle"
    /\ done[w] < Len(hook_calls)
    /\ NextCall(w).hook = hook

\* The shard of each hook: split_between_processes(self.prompt_dataset, apply_padding=True)
TrainBeginShardUnpadded(w) ==
    split_between_processes(prompt_dataset, num_processes, w, FALSE, split_version)

TrainBeginShard(w) ==
    split_between_processes(prompt_dataset, num_processes, w, TRUE, split_version)

EvaluateShard(w) ==
    split_between_processes(prompt_dataset, num_processes, w, TRUE, split_version)

\* An exception leaves the hook on worker w.
Fails(w, hook, e) ==
    /\ pc' = [pc EXCEPT ![w] = "failed"]
    /\ error' = [error EXCEPT ![w] = e]
    /\ failed_in' = [failed_in EXCEPT ![w] = hook]

\* The host trainer (every process runs the same program) calls the next hook;
\* training advances state.global_step between two calls.
TrainerCall ==
    /\ Len(hook_calls) < MaxHookCalls
    /\ \E hook \in Hooks :
          hook_calls' = Append(hook_calls, [hook |-> hook, step |-> Len(hook_calls)])
    /\ UNCHANGED <<config, done, pc, error, failed_in, ref_completions,
                   annotation_batch, results_dict, judge_calls, log_history, wandb_run>>

\* on_train_begin on worker w.
on_train_begin(w) ==
    /\ CanRun(w, "on_train_begin")
    /\ LET prompts == TrainBeginShard(w)
       IN  IF ~prompts.ok
           THEN /\ Fails(w, "on_train_begin", prompts.error)
                /\ UNCHANGED <<done, ref_completions>>
           ELSE IF Len(prompts.value) = 0          \* print(prompts[0])
           THEN /\ Fails(w, "on_train_begin", "IndexError")
                /\ UNCHANGED <<done, ref_completions>>
           ELSE /\ ref_completions' =
                      [ref_completions EXCEPT
                          ![w] = @ \o GenerateRefCompletions(prompts.value, NextCall(w).step)]
                /\ done' = [done EXCEPT ![w] = @ + 1]
                /\ UNCHANGED <<pc, error, failed_in>>
    /\ UNCHANGED <<config, hook_calls, annotation_batch, results_dict, judge_calls,
                   log_history, wandb_run>>

\* on_evaluate on worker w, up to its call of gather_object.
on_evaluate_local(w) ==
    /\ CanRun(w, "on_evaluate")
    /\ LET prompts == EvaluateShard(w)
           loop    == EvaluateLoop(prompts.value, ref_completions[w], NextCall(w).step)
           batch   == [prompts |-> PromptColumn(prompts.value), completions |-> loop.value]
       IN  IF ~prompts.ok
           THEN /\ Fails(w, "on_evaluate", prompts.error)
                /\ UNCHANGED <<annotation_batch, results_dict, judge_calls>>
           ELSE IF ~loop.ok
           THEN /\ Fails(w, "on_evaluate", loop.error)
                /\ annotation_batch' = [annotation_batch EXCEPT ![w] = batch]
                /\ UNCHANGED <<results_dict, judge_calls>>
           ELSE \E results \in [1 .. Len(batch.completions) -> {0, 1}] :
                /\ annotation_batch' = [annotation_batch EXCEPT ![w] = batch]
                /\ judge_calls' = [judge_calls EXCEPT ![w] = @ + 1]
                /\ results_dict' =
                      [results_dict EXCEPT
                          ![w] = ResultRows(results, batch.prompts, batch.completions)]
                /\ pc' = [pc EXCEPT ![w] = "gather"]
                /\ UNCHANGED <<error, failed_in>>
    /\ UNCHANGED <<config, hook_calls, done, ref_completions, log_history, wandb_run>>

\* gather_object completes: a collective, it returns on every process once
\* every process has called it.  A process that is not the main process has
\* nothing left to do and returns from on_evaluate.
gather ==
    /\ \A w \in Workers : pc[w] = "gather"
    /\ results_dict' =
          [w \in Workers |-> IF IsMainProcess(w)
                             THEN gather_object(results_dict, num_processes) ELSE <<>>]
    /\ pc' = [w \in Workers |-> IF IsMainProcess(w) THEN "main" ELSE "idle"]
    /\ done' = [w \in Workers |-> IF IsMainProcess(w) THEN done[w] ELSE done[w] + 1]
    /\ annotation_batch' =
          [w \in Workers |-> IF IsMainProcess(w) THEN annotation_batch[w] ELSE NoBatch]
    /\ UNCHANGED <<config, hook_calls, error, failed_in, ref_completions,
                   judge_calls, log_history, wandb_run>>

\* on_evaluate on the main process, after gather_object.
on_evaluate_main(w) ==
    /\ pc[w] = "main"
    /\ LET results_dataset == SelectRange(results_dict[w], Len(prompt_dataset))
           win_rate        == WinRate(results_dataset.value)
           logged          == TrainerLog(log_history[w], "win_rate", win_rate.value)
           returns         == /\ pc' = [pc EXCEPT ![w] = "idle"]
                              /\ done' = [done EXCEPT ![w] = @ + 1]
                              /\ annotation_batch' = [annotation_batch EXCEPT ![w] = NoBatch]
                              /\ results_dict' = [results_dict EXCEPT ![w] = <<>>]
                              /\ UNCHANGED <<error, failed_in>>
       IN  IF ~results_dataset.ok
           THEN /\ Fails(w, "on_evaluate", results_dataset.error)
                /\ UNCHANGED <<done, annotation_batch, results_dict, log_history, wandb_run>>
           ELSE IF ~win_rate.ok
           THEN /\ Fails(w, "on_evaluate", win_rate.error)
                /\ UNCHANGED <<done, annotation_batch, results_dict, log_history, wandb_run>>
           ELSE IF wandb_available
           THEN /\ wandb_run' = Append(wandb_run, [eval_win_rate |-> win_rate.value,
                                                   global_step |-> NextCall(w).step])
                /\ log_history' =
                      [log_history EXCEPT
                          ![w] = Pop(TrainerLog(logged, "winrate_generations",
                                                TableRows(results_dataset.value)))]
                /\ returns
           ELSE /\ log_history' = [log_history EXCEPT ![w] = logged]
                /\ UNCHANGED wandb_run
                /\ returns
    /\ UNCHANGED <<config, hook_calls, ref_completions, judge_calls>>

Next ==
    \/ TrainerCall
    \/ \E w \in Workers : on_train_begin(w)
    \/ \E w \in Workers : on_evaluate_local(w)
    \/ gather
    \/ \E w \in Workers : on_evaluate_main(w)

Spec == Init /\ [][Next]_vars

SpecWide == InitWide /\ [][Next]_vars

----------------------------------------------------------------------------
\* Properties.

N == Len(prompt_dataset)

\* How many calls of `hook` worker w has returned from.
HookCallsDone(w, hook) ==
    Cardinality({k \in 1 .. done[w] : hook_calls[k].hook = hook})

\* The padded shard of worker w (empty when the split itself fails).
LocalShard(w) == EvaluateShard(w).value

\* C1: for N >= 1, the rows the main process keeps after gathering and
\* truncating to the first N hold exactly one row for each prompt of the
\* dataset.
C1_TruncationKeepsEachPromptOnce ==
    \A w \in Workers :
        (pc[w] = "main" /\ N >= 1) =>
            LET kept == SelectRange(results_dict[w], N)
            IN  /\ kept.ok
                /\ \A i \in 1 .. N :
                      Cardinality({k \in 1 .. Len(kept.value) :
                                      kept.value[k].prompts = prompt_dataset[i].prompt}) = 1

\* C2 as stated: once the one on_train_begin of the run has completed on a
\* worker, its reference list is as long as the prompt dataset and entry i is
\* the reference completion of dataset prompt i.
C2_RefCompletionsAlignedWithDataset ==
    \A w \in Workers :
        HookCallsDone(w, "on_train_begin") = 1 =>
            /\ Len(ref_completions[w]) = N
            /\ \A i \in 1 .. N : ref_completions[w][i].for = prompt_dataset[i].prompt

\* C2 amended: once the one on_train_begin of the run has completed on a
\* worker, its reference list is as long as the worker's padded local shard
\* and entry i is the completion on_train_begin generated for shard row i;
\* this holds through every later on_evaluate.
C2_RefCompletionsAlignedWithShard ==
    \A w \in Workers :
        HookCallsDone(w, "on_train_begin") = 1 =>
            /\ Len(ref_completions[w]) = Len(LocalShard(w))
            /\ \A i \in 1 .. Len(LocalShard(w)) :
                  /\ ref_completions[w][i].for = LocalShard(w)[i].prompt
                  /\ ref_completions[w][i].hook = "on_train_begin"

C2_Witness ==
    \E w \in Workers :
        /\ HookCallsDone(w, "on_train_begin") = 1
        /\ HookCallsDone(w, "on_evaluate") = 2
        /\ num_processes = 2
        /\ Len(LocalShard(w)) = 2
        /\ Len(ref_completions[w]) = 2

\* C3 as stated: whatever hooks have been called, once the reference list
\* exists its length is the length of the worker's padded shard.
C3_RefLengthIsShardLength ==
    \A w \in Workers :
        HookCallsDone(w, "on_train_begin") >= 1 =>
            Len(ref_completions[w]) = Len(LocalShard(w))

\* C3 amended: the reference list holds one shard's worth of entries for every
\* on_train_begin call the worker has completed (none before the first, twice
\* the shard after a second call); no on_evaluate changes it.
C3_RefLengthIsShardLengthPerTrainBegin ==
    \A w \in Workers :
        Len(ref_completions[w]) = HookCallsDone(w, "on_train_begin") * Len(LocalShard(w))

C3_Witness ==
    \E w \in Workers :
        /\ HookCallsDone(w, "on_train_begin") = 2
        /\ HookCallsDone(w, "on_evaluate") = 1
        /\ Len(LocalShard(w)) = 2
        /\ Len(ref_completions[w]) = 4

\* C4: in every on_evaluate that reaches the judge, the batch judged has one
\* prompt and one pair per row of the local shard; prompt i is the prompt of
\* shard row i, the pair's first completion is the one this on_evaluate call
\* generated for row i, and its second is the stored reference completion i,
\* generated by on_train_begin for the same row.
C4_PairsArePositional ==
    \A w \in Workers :
        pc[w] \in {"gather", "main"} =>
            LET batch == annotation_batch[w]
                shard == LocalShard(w)
            IN  /\ Len(batch.prompts) = Len(shard)
                /\ Len(batch.completions) = Len(shard)
                /\ \A i \in 1 .. Len(shard) :
                      /\ batch.prompts[i] = shard[i].prompt
                      /\ batch.completions[i][1].for = shard[i].prompt
                      /\ batch.completions[i][1].hook = "on_evaluate"
                      /\ batch.completions[i][1].model = NextCall(w).step
                      /\ batch.completions[i][2] = ref_completions[w][i]
                      /\ batch.completions[i][2].for = shard[i].prompt
                      /\ batch.completions[i][2].hook = "on_train_begin"

C4_Witness ==
    \E w \in Workers :
        /\ pc[w] = "gather"
        /\ Len(annotation_batch[w].completions) = 2
        /\ annotation_batch[w].completions[2][1].for = 3
        /\ annotation_batch[w].completions[2][1].model = 2
        /\ annotation_batch[w].completions[2][2].model = 0

\* The judgments the main process keeps: the first N gathered rows.
KeptResults(w) == [i \in 1 .. N |-> results_dict[w][i].results]

ZerosKept(w) == Cardinality({i \in 1 .. N : KeptResults(w)[i] = 0})

\* The entry on_evaluate_main appends to log_history on worker w in this step.
WinRateLogged(w) == log_history'[w][Len(log_history[w]) + 1]

\* What C5 says of a step in which on_evaluate returns on worker w; the win
\* rate is the fraction value[1] / value[2].
C5_WinRateStep(w) ==
    (pc[w] = "main" /\ pc'[w] = "idle") =>
        LET num == WinRateLogged(w).value[1]
            den == WinRateLogged(w).value[2]
        IN  /\ WinRateLogged(w).key = "win_rate"
            /\ den > 0
            /\ num * N = ZerosKept(w) * den
            /\ 0 <= num /\ num <= den
            /\ (\A i \in 1 .. N : KeptResults(w)[i] = 0) => num = den
            /\ (\A i \in 1 .. N : KeptResults(w)[i] = 1) => num = 0
            /\ (N = 2 /\ KeptResults(w) = <<0, 1>>) => 2 * num = den

\* C5: the win rate logged is (kept judgments equal to 0) / (kept pairs); it
\* lies in [0, 1], is 1 when every kept judgment is 0, 0 when every kept
\* judgment is 1, and 1/2 for a dataset of 2 prompts judged [0, 1].
C5_WinRateIsFractionOfZeros == [][\A w \in Workers : C5_WinRateStep(w)]_vars

C5_Witness ==
    /\ N = 2
    /\ Len(log_history[0]) = 2
    /\ log_history[0][1] = [key |-> "win_rate", value |-> <<1, 2>>]
    /\ log_history[0][2] = [key |-> "win_rate", value |-> <<2, 2>>]

\* The turns the claim expects generation to receive for a conversation.
ExpectedInput(conversation) ==
    IF conversation[Len(conversation)] = "assistant"
    THEN [k \in 1 .. (Len(conversation) - 1) |-> conversation[k]]
    ELSE conversation

GeneratedFrom(completion) ==
    /\ completion.input = ExpectedInput(prompt_dataset[completion.for].chosen)
    /\ Len(completion.input) >= Len(prompt_dataset[completion.for].chosen) - 1

\* C6: every completion either hook has generated was generated from its
\* row's conversation without the last turn when that turn is an assistant
\* turn, and from the whole conversation otherwise.
C6_TrailingAssistantTurnStripped ==
    \A w \in Workers :
        /\ \A i \in 1 .. Len(ref_completions[w]) : GeneratedFrom(ref_completions[w][i])
        /\ \A i \in 1 .. Len(annotation_batch[w].completions) :
              GeneratedFrom(annotation_batch[w].completions[i][1])

C6_Witness ==
    /\ N = 3
    /\ pc[0] = "gather"
    /\ Len(annotation_batch[0].completions) = 3
    /\ annotation_batch[0].completions[2][1].input = <<"user", "assistant">>
    /\ annotation_batch[0].completions[3][1].input = <<"user">>
    /\ ref_completions[0][1].input = <<"user">>
    /\ ref_completions[0][2].input = <<"user", "assistant">>

\* C7 as stated (on a single process): with an empty dataset the run ends in
\* on_evaluate's win-rate computation with a division by zero.
C7_EmptyDatasetEndsInZeroDivision ==
    (N = 0 /\ num_processes = 1) =>
        \A w \in Workers :
            pc[w] = "failed" =>
                (failed_in[w] = "on_evaluate" /\ error[w] = "ZeroDivisionError")

\* C7 amended: with an empty dataset no hook call ever returns and no
\* win_rate is logged.  on_train_begin fails with an IndexError before it
\* generates anything; on_evaluate on a single process calls the judge with
\* an empty batch, reaches the unguarded win-rate division and fails there
\* with a ZeroDivisionError.
C7_EmptyDatasetFailsBeforeLogging ==
    N = 0 =>
        /\ wandb_run = <<>>
        /\ \A w \in Workers :
              /\ done[w] = 0
              /\ log_history[w] = <<>>
              /\ ref_completions[w] = <<>>
              /\ failed_in[w] = "on_train_begin" => error[w] = "IndexError"
              /\ (failed_in[w] = "on_evaluate" /\ num_processes = 1) =>
                    (error[w] = "ZeroDivisionError" /\ judge_calls[w] = 1)

C7_Witness ==
    /\ N = 0
    /\ num_processes = 1
    /\ failed_in[0] = "on_evaluate"
    /\ error[0] = "ZeroDivisionError"

\* What C8 says of a step in which on_evaluate returns on worker w.
C8_LogHistoryStep(w) ==
    (pc[w] = "main" /\ pc'[w] = "idle") =>
        /\ Len(log_history'[w]) = Len(log_history[w]) + 1
        /\ SubSeq(log_history'[w], 1, Len(log_history[w])) = log_history[w]
        /\ \A k \in 1 .. Len(log_history'[w]) : log_history'[w][k].key = "win_rate"
        /\ wandb_available => Len(wandb_run') = Len(wandb_run) + 1
        /\ ~wandb_available => wandb_run' = wandb_run

\* C8: an on_evaluate that returns on the main process leaves log_history
\* with exactly one entry more than before, the win_rate entry, whether or
\* not the tracking backend is available; no table entry stays in it.
C8_OnlyWinRateEntryIsRetained == [][\A w \in Workers : C8_LogHistoryStep(w)]_vars

C8_Witness ==
    /\ wandb_available
    /\ Len(log_history[0]) = 2
    /\ Len(wandb_run) = 2
    /\ log_history[0][1].value # log_history[0][2].value

\* C9: only the main process logs, once per on_evaluate it returns from, and
\* only when every process has judged its shard for that evaluation; no
\* process is past the gather of an evaluation that some process has not yet
\* judged.
C9_MainLogsOncePerEvaluationAfterGather ==
    /\ \A w \in Workers :
          /\ w # 0 => log_history[w] = <<>>
          /\ w # 0 => pc[w] # "main"
          /\ \A v \in Workers :
                /\ HookCallsDone(w, "on_evaluate") <= judge_calls[v]
                /\ pc[w] = "main" => judge_calls[w] <= judge_calls[v]
    /\ Len(log_history[0]) = HookCallsDone(0, "on_evaluate")
    /\ wandb_available => Len(wandb_run) = Len(log_history[0])
    /\ ~wandb_available => wandb_run = <<>>

C9_Witness ==
    /\ num_processes = 2
    /\ Len(log_history[0]) = 2
    /\ judge_calls[1] = 2
    /\ log_history[1] = <<>>

\* C10: every reference completion an evaluation pairs is an entry of the
\* stored list at that index; an on_evaluate on a worker whose on_train_begin
\* has not completed (dataset not empty) fails with an IndexError at the
\* first pair: no pair is built, the judge is not called, nothing is logged.
C10_ReferenceReadsAreInRange ==
    \A w \in Workers :
        /\ \A i \in 1 .. Len(annotation_batch[w].completions) :
              /\ i <= Len(ref_completions[w])
              /\ annotation_batch[w].completions[i][2] = ref_completions[w][i]
        /\ (N >= 1 /\ HookCallsDone(w, "on_train_begin") = 0) =>
              /\ pc[w] \in {"idle", "failed"}
              /\ annotation_batch[w].completions = <<>>
              /\ judge_calls[w] = 0
              /\ log_history[w] = <<>>
              /\ results_dict[w] = <<>>
              /\ failed_in[w] = "on_evaluate" => error[w] = "IndexError"

C10_Witness ==
    \E w \in Workers :
        /\ N >= 1
        /\ failed_in[w] = "on_evaluate"
        /\ error[w] = "IndexError"
        /\ annotation_batch[w].prompts # <<>>
        /\ annotation_batch[w].completions = <<>>

====
